---------------------------- MODULE Spec2Model ----------------------------
(***************************************************************************)
(* Model of the myPV AC THOR integration (custom_components/mypv):         *)
(* the API client, the three update coordinators ("pollers"), the sensor   *)
(* platform set-up that projects sensors from the first snapshots, the    *)
(* value transformer MyPVSensor.native_value, the flattener _flatten_dict, *)
(* the config flow and the registry hass.data[DOMAIN].                     *)
(*                                                                         *)
(* Specifications:                                                         *)
(*   Spec      the pollers, the set-up of the sensor platform, the unload  *)
(*   SpecNV    native_value over one key and one raw value                 *)
(*   SpecFlat  _flatten_dict over a mapping and its one-key wrapper        *)
(*   SpecFlow  config flows: validation and creation of config entries     *)
(*   SpecReg   set-up and unload of config entries over the registry       *)
(*                                                                         *)
(* Representation of Python values:                                        *)
(*   strings   sequences of tokens; the separator "_" and the blank " "    *)
(*             are tokens of their own, so that joining, replacing,        *)
(*             prefix tests and splitting are computed, not assumed;       *)
(*   None      [t |-> "none"]                                              *)
(*   bool      [t |-> "bool", b |-> TRUE]                                  *)
(*   int       [t |-> "int", i |-> n, e |-> k]    the integer n * 10^k     *)
(*             (k = 0 for ordinary readings; k > 0 only with a one-digit   *)
(*             n, for integers beyond the range of a double)               *)
(*   float     [t |-> "float", m |-> n, d |-> k]  the decimal n * 10^-k    *)
(*   str       [t |-> "str", s |-> <<tokens>>]                             *)
(*   list      [t |-> "list"]                     (opaque to this code)    *)
(*   dict      [t |-> "dict", items |-> <<..., <<key, value>>, ...>>]      *)
(*             in insertion order, keys unique                             *)
(***************************************************************************)
EXTENDS Integers, Sequences, FiniteSets, TLC

VARIABLES
    phase,      \* position of sensor.async_setup_entry for the config entry
    data,       \* data[p]: coordinator.data of poller p
    inflight,   \* inflight[p]: a _async_update_data call of p awaits its GET
    lastOk,     \* lastOk[p]: payload of p's most recent successful fetch (history)
    lastCall,   \* outcome of the most recently finished _async_update_data call
    entities,   \* the sensor entities handed to async_add_entities
    ticks,      \* number of timer ticks started so far
    outstanding,    \* outstanding[p]: GETs of poller p awaiting their response
    nvKey,      \* transformer probe: the sensor key
    nvValue,    \* transformer probe: the raw value of that key
    nvOut,      \* transformer probe: what native_value did
    flKey,      \* flattener probe: the key k of the wrapper {k: X}
    flInner,    \* flattener probe: the nested mapping X
    flOut,      \* flattener probe: what _flatten_dict returned for both
    flows,      \* flows[f]: position and last result of config flow f
    configEntries,  \* the config entries of the domain, in order of creation
    registry,       \* hass.data[DOMAIN]: the items of the dict, by entry id
    entryState,     \* entryState[e]: the host's state of config entry e
    loadedEntries,  \* entries set up and not successfully unloaded since (history)
    lastOp          \* the set-up or unload of an entry that returned last

vars == <<phase, data, inflight, lastOk, lastCall, entities, ticks, outstanding,
          nvKey, nvValue, nvOut, flKey, flInner, flOut,
          flows, configEntries, registry, entryState, loadedEntries, lastOp>>

pollerVars == <<phase, data, inflight, lastOk, lastCall, entities, ticks,
               outstanding>>
nvVars == <<nvKey, nvValue, nvOut>>
flVars == <<flKey, flInner, flOut>>
flowVars == <<flows, configEntries>>
regVars == <<registry, entryState, loadedEntries, lastOp>>

\* the variables of the probes other than the transformer's
auxVars == <<flVars, flowVars, regVars>>

-----------------------------------------------------------------------------
(* Python values *)

PyNone == [t |-> "none"]
PyBool(b) == [t |-> "bool", b |-> b]
PyInt(n) == [t |-> "int", i |-> n, e |-> 0]
PyIntE(n, k) == [t |-> "int", i |-> n, e |-> k]
PyFloat(n, k) == [t |-> "float", m |-> n, d |-> k]
PyStr(s) == [t |-> "str", s |-> s]
PyList == [t |-> "list"]
PyDict(items) == [t |-> "dict", items |-> items]

EmptyDict == PyDict(<<>>)

\* what a call did: it returned a value, or it raised an exception; the
\* exception is its chain of kinds, the kind raised first and then each
\* __cause__ ("raise ... from exception")
Returned(v) == [exc |-> <<>>, value |-> v]
Raised(chain) == [exc |-> chain, value |-> PyNone]

Abs(n) == IF n < 0 THEN -n ELSE n

RECURSIVE Pow10(_)
Pow10(n) == IF n = 0 THEN 1 ELSE 10 * Pow10(n - 1)

\* isinstance(v, dict)
IsDict(v) == v.t = "dict"

\* isinstance(v, int): bool is a subclass of int
IsInt(v) == v.t \in {"int", "bool"}

\* isinstance(v, (int, float))
IsNumber(v) == v.t \in {"int", "bool", "float"}

\* Python truthiness, as used by "if coordinator.data:" and "if not watt_hours_day:"
Truthy(v) ==
    CASE v.t = "none" -> FALSE
      [] v.t = "bool" -> v.b
      [] v.t = "int" -> v.i # 0
      [] v.t = "float" -> v.m # 0
      [] v.t = "str" -> v.s # <<>>
      [] v.t = "dict" -> v.items # <<>>
      [] OTHER -> TRUE

(* dict operations on the item sequences *)

Keys(items) == {items[n][1] : n \in 1..Len(items)}

KeySeq(items) == [n \in 1..Len(items) |-> items[n][1]]

HasKey(items, k) == \E n \in 1..Len(items) : items[n][1] = k

\* dict.get(k, default)
Get(items, k, default) ==
    IF HasKey(items, k)
    THEN items[CHOOSE n \in 1..Len(items) : items[n][1] = k][2]
    ELSE default

\* d[k] = v : an existing key keeps its position, a new key is appended
Put(items, k, v) ==
    IF HasKey(items, k)
    THEN [n \in 1..Len(items) |-> IF items[n][1] = k THEN <<k, v>> ELSE items[n]]
    ELSE Append(items, <<k, v>>)

\* dict(pairs): pairs inserted left to right, the last write of a key wins
RECURSIVE DictOf(_, _)
DictOf(pairs, acc) ==
    IF pairs = <<>> THEN acc
    ELSE DictOf(Tail(pairs), Put(acc, Head(pairs)[1], Head(pairs)[2]))


-----------------------------------------------------------------------------
(* Strings *)

SEP == <<"_">>
BLANK == <<" ">>

\* a.startswith(b)
StartsWith(a, b) == Len(b) <= Len(a) /\ SubSeq(a, 1, Len(b)) = b

\* " " in a
HasBlank(a) == \E n \in 1..Len(a) : a[n] = " "

\* a.split(" "): the pieces of a between blanks
RECURSIVE Split(_, _)
Split(a, piece) ==
    IF a = <<>> THEN <<piece>>
    ELSE IF Head(a) = " " THEN <<piece>> \o Split(Tail(a), <<>>)
    ELSE Split(Tail(a), Append(piece, Head(a)))

\* str(n) for an integer n >= 0, as digit tokens
DigitTok == <<"0", "1", "2", "3", "4", "5", "6", "7", "8", "9">>

RECURSIVE DecDigits(_)
DecDigits(n) ==
    IF n < 10 THEN <<DigitTok[n + 1]>>
    ELSE Append(DecDigits(n \div 10), DigitTok[(n % 10) + 1])

Zeros(k) == [n \in 1..k |-> "0"]

\* f"{value}" of an int or bool
FormatInt(v) ==
    IF v.t = "bool" THEN (IF v.b THEN <<"True">> ELSE <<"False">>)
    ELSE (IF v.i < 0 THEN <<"-">> ELSE <<>>) \o DecDigits(Abs(v.i))
         \o (IF v.i = 0 THEN <<>> ELSE Zeros(v.e))

-----------------------------------------------------------------------------
(* Sensor definitions: the entries of SENSOR_TYPES the model's keys use *)

K_device == <<"device">>
K_screen_mode_flag == <<"screen", "_", "mode", "_", "flag">>
K_cur_eth_mode == <<"cur", "_", "eth", "_", "mode">>
K_curr_L2 == <<"curr", "_", "L2">>
K_freq == <<"freq">>
K_load_nom == <<"load", "_", "nom">>
K_temp1 == <<"temp1">>

SENSOR_TYPES ==
    << <<K_device, [name |-> <<"Device Type">>]>>,
       <<K_screen_mode_flag, [name |-> <<"Device Status">>]>>,
       <<K_cur_eth_mode, [name |-> <<"Ethernet Mode">>]>>,
       <<K_curr_L2, [name |-> <<"Grid Current L2">>, unit |-> "A",
                     scale |-> PyFloat(1, 1)]>>,
       <<K_freq, [name |-> <<"Grid Frequency">>, unit |-> "Hz",
                  scale |-> PyFloat(1, 3)]>>,
       <<K_load_nom, [name |-> <<"Nominal Power">>, unit |-> "W"]>>,
       <<K_temp1, [name |-> <<"Temperature 1">>, unit |-> "C",
                   scale |-> PyFloat(1, 1)]>> >>

\* SENSOR_TYPES.get(sensor_key, {})
SensorConfig(sensor_key) == Get(SENSOR_TYPES, sensor_key, <<>>)

-----------------------------------------------------------------------------
(* _flatten_dict *)

RECURSIVE FlattenItems(_, _, _)
RECURSIVE _flatten_dict(_, _, _)

\* the loop of _flatten_dict over data.items(), building the list "items"
FlattenItems(its, parent_key, sep) ==
    IF its = <<>> THEN <<>>
    ELSE LET key == Head(its)[1]
             value == Head(its)[2]
             new_key == IF parent_key # <<>> THEN parent_key \o sep \o key ELSE key
         IN (IF IsDict(value)
             THEN _flatten_dict(value, new_key, sep)
             ELSE << <<new_key, value>> >>)
            \o FlattenItems(Tail(its), parent_key, sep)

\* __flatten_dict(data, parent_key, sep): the items of the flat dict returned
_flatten_dict(d, parent_key, sep) ==
    IF ~IsDict(d) THEN <<>>
    ELSE DictOf(FlattenItems(d.items, parent_key, sep), <<>>)

Flat(d) == _flatten_dict(d, <<>>, SEP)

-----------------------------------------------------------------------------
(* MyPVSensor.native_value *)

\* the dict key an int or bool hashes to (True == 1, False == 0);
\* -1 stands for an integer no table of this module holds
IntKey(v) ==
    IF v.t = "bool" THEN (IF v.b THEN 1 ELSE 0)
    ELSE IF v.e = 0 \/ v.i = 0 THEN v.i ELSE -1

status_map ==
    << <<0, <<"Standby">> >>, <<1, <<"Heating">> >>, <<2, <<"Heating Boost">> >>,
       <<3, <<"Heating Complete">> >>, <<4, <<"No Connection / Disabled">> >>,
       <<5, <<"Error">> >>, <<6, <<"Blocking Time Active">> >> >>

mode_map == << <<0, <<"LAN">> >>, <<1, <<"WLAN">> >>, <<2, <<"AP">> >> >>

\* a variant of UnknownLabel that leaves the label text out: str(value)
UnknownLabelBare(value) == FormatInt(value)

\* f"Unknown ({value})"
UnknownLabel(value) == <<"Unknown (">> \o FormatInt(value) \o <<")">>

\* status_map.get(value, f"Unknown ({value})")
StatusLabel(value) == PyStr(Get(status_map, IntKey(value), UnknownLabel(value)))

\* mode_map.get(value, f"Unknown ({value})")
ModeLabel(value) == PyStr(Get(mode_map, IntKey(value), UnknownLabel(value)))

\* largest power of ten a double holds (sys.float_info.max_10_exp)
DBL_MAX_10_EXP == 308

\* int -> float conversion raises OverflowError beyond the largest double,
\* 1.797...e308 (the int is n * 10^k with one digit n when k > 0)
IntTooLargeForFloat(v) ==
    /\ v.t = "int"
    /\ v.i # 0
    /\ \/ v.e > DBL_MAX_10_EXP
       \/ v.e = DBL_MAX_10_EXP /\ Abs(v.i) >= 2

\* a decimal with its trailing zeros dropped: the float's value, not its spelling
RECURSIVE NormFloat(_, _)
NormFloat(m, d) ==
    IF m = 0 THEN PyFloat(0, 0)
    ELSE IF m % 10 = 0 THEN NormFloat(m \div 10, d - 1)
    ELSE PyFloat(m, d)

\* value * scale, scale a float
Multiply(value, scale) ==
    CASE value.t = "bool" -> NormFloat((IF value.b THEN 1 ELSE 0) * scale.m, scale.d)
      [] value.t = "int" -> NormFloat(value.i * scale.m, scale.d - value.e)
      [] OTHER -> NormFloat(value.m * scale.m, value.d + scale.d)

\* round(x, ndigits) of a float: to the nearest multiple of 10^-ndigits; when x
\* lies exactly between two in decimal, its binary double lies on either side
\* and "tie" says which
RoundFloat(x, ndigits, tie) ==
    IF x.d <= ndigits THEN x
    ELSE LET unit == Pow10(x.d - ndigits)
             q == x.m \div unit
             r == x.m % unit
         IN NormFloat(IF 2 * r > unit \/ (2 * r = unit /\ tie = "up")
                      THEN q + 1 ELSE q, ndigits)


\* a variant of ScaleValue that leaves the rounding out: value * scale
ScaleValueUnrounded(value, scale, tie) ==
    IF IntTooLargeForFloat(value) THEN Raised(<<"OverflowError">>)
    ELSE Returned(Multiply(value, scale))

\* the try block of native_value: round(value * scale, 2), with its handlers
\* except (ValueError, TypeError)
ScaleValue(value, scale, tie) ==
    IF IntTooLargeForFloat(value) THEN Raised(<<"OverflowError">>)
    ELSE Returned(RoundFloat(Multiply(value, scale), 2, tie))

\* native_value of a MyPVSensor with _sensor_key = sensor_key while the
\* coordinator holds coordinator_data (PyNone before the first success)
native_value(coordinator_data, sensor_key, tie) ==
    IF coordinator_data.t = "none" THEN Returned(PyNone)
    ELSE LET flat_data == Flat(coordinator_data)
             value == Get(flat_data, sensor_key, PyNone)
             sensor_config == SensorConfig(sensor_key)
         IN IF value.t = "none" THEN Returned(PyNone)
            ELSE IF sensor_key = K_screen_mode_flag /\ IsInt(value)
                 THEN Returned(StatusLabel(value))
            ELSE IF sensor_key = K_cur_eth_mode /\ IsInt(value)
                 THEN Returned(ModeLabel(value))
            ELSE IF "scale" \in DOMAIN sensor_config /\ IsNumber(value)
                 THEN ScaleValue(value, sensor_config.scale, tie)
            ELSE Returned(value)

-----------------------------------------------------------------------------
(* MyPVApiClient *)

\* what the network does to one GET: a response with a status and a JSON body,
\* a response whose body is no JSON, a transport failure, or no answer within
\* API_TIMEOUT
Response(status, body) == [kind |-> "response", status |-> status, body |-> body]
BadJson == [kind |-> "bad_json", status |-> 200, body |-> PyNone]
ClientError == [kind |-> "client_error", status |-> 0, body |-> PyNone]
Timeout == [kind |-> "timeout", status |-> 0, body |-> PyNone]

\* response.raise_for_status() raises ClientResponseError from this status on
HTTP_ERROR_STATUS == 400

\* _async_get(endpoint), given what the network did to its GET
_async_get(ev) ==
    CASE ev.kind = "timeout" -> Raised(<<"Exception", "TimeoutError">>)
      [] ev.kind = "client_error" -> Raised(<<"Exception", "ClientError">>)
      [] ev.kind = "bad_json" -> Raised(<<"JSONDecodeError">>)
      [] OTHER ->
           IF ev.status >= HTTP_ERROR_STATUS
           THEN Raised(<<"Exception", "ClientResponseError">>)
           ELSE Returned(ev.body)

DataTypes == {"data", "soc", "forecast"}

\* a variant of Endpoint in which async_get_soc asks for the device data
EndpointSocAsData(data_type) ==
    CASE data_type = "data" -> "/data"
      [] data_type = "soc" -> "/data"
      [] data_type = "forecast" -> "/solarForecast"

\* the endpoint async_get_data / async_get_soc / async_get_solar_forecast asks for
Endpoint(data_type) ==
    CASE data_type = "data" -> "/data"
      [] data_type = "soc" -> "/data/soc"
      [] data_type = "forecast" -> "/solarForecast"

\* a variant of _async_update_data that swallows a failure and returns {}
_async_update_data_swallowing(data_type, ev) ==
    IF _async_get(ev).exc = <<>> THEN _async_get(ev) ELSE Returned(EmptyDict)

\* a variant of _async_update_data without its "except Exception" wrapper
_async_update_data_unwrapped(data_type, ev) == _async_get(ev)

\* MyPVDataUpdateCoordinator._async_update_data, given what the network did
_async_update_data(data_type, ev) ==
    IF data_type \in DataTypes
    THEN LET r == _async_get(ev)
         IN IF r.exc = <<>> THEN r ELSE Raised(<<"UpdateFailed">> \o r.exc)
    ELSE Raised(<<"UpdateFailed", "UpdateFailed">>)

\* a variant of Requests in which the fetcher sends its GET a second time
RequestsWithRetry(data_type) ==
    IF data_type \in DataTypes
    THEN <<Endpoint(data_type), Endpoint(data_type)>>
    ELSE <<>>

\* the GETs one call of _async_update_data issues: the one session.get of the
\* one _async_get call of its category, none for an unknown category
Requests(data_type) ==
    IF data_type \in DataTypes THEN <<Endpoint(data_type)>> ELSE <<>>

-----------------------------------------------------------------------------
(* Sensor projection: sensor.async_setup_entry and the entity classes *)

ENTRY_ID == <<"E1">>
SERIAL == <<"S1">>

\* str.title() on the tokens of the model's keys
TitleTok(tok) ==
    CASE tok = "a" -> "A" [] tok = "b" -> "B" [] tok = "x" -> "X"
      [] tok = "y" -> "Y" [] tok = "soc" -> "Soc" [] tok = "temp1" -> "Temp1"
      [] tok = "screen" -> "Screen" [] tok = "mode" -> "Mode"
      [] tok = "flag" -> "Flag" [] tok = "cur" -> "Cur" [] tok = "eth" -> "Eth"
      [] tok = "curr" -> "Curr" [] tok = "freq" -> "Freq"
      [] tok = "load" -> "Load" [] tok = "nom" -> "Nom"
      [] tok = "device" -> "Device" [] tok = "forecast" -> "Forecast"
      [] OTHER -> tok

\* MyPVSensor._format_sensor_name: key.replace("_", " ").title()
_format_sensor_name(key) ==
    [n \in 1..Len(key) |-> IF key[n] = "_" THEN " " ELSE TitleTok(key[n])]

\* the device model both entity classes derive from the coordinator's data
DeviceModel(coordinator_data) ==
    IF Truthy(coordinator_data)
    THEN LET device_type == Get(Flat(coordinator_data), K_device, PyNone)
         IN IF Truthy(device_type) THEN device_type ELSE PyStr(<<"myPV Device">>)
    ELSE PyStr(<<"myPV Device">>)

\* a variant of MyPVSensor whose unique id leaves the category out
MyPVSensorIdWithoutCategory(coordinator_data, entry_id, sensor_key, data_type) ==
    [cls |-> "MyPVSensor",
     coordinator |-> data_type,
     key |-> sensor_key,
     unique_id |-> entry_id \o SEP \o sensor_key,
     name |-> IF "name" \in DOMAIN SensorConfig(sensor_key)
              THEN SensorConfig(sensor_key).name
              ELSE _format_sensor_name(sensor_key),
     known |-> "name" \in DOMAIN SensorConfig(sensor_key),
     model |-> DeviceModel(coordinator_data)]

\* MyPVSensor.__init__
MyPVSensor(coordinator_data, entry_id, sensor_key, data_type) ==
    LET sensor_config == SensorConfig(sensor_key)
    IN [cls |-> "MyPVSensor",
        coordinator |-> data_type,
        key |-> sensor_key,
        unique_id |-> entry_id \o SEP \o <<data_type>> \o SEP \o sensor_key,
        name |-> IF "name" \in DOMAIN sensor_config THEN sensor_config.name
                 ELSE _format_sensor_name(sensor_key),
        known |-> "name" \in DOMAIN sensor_config,
        model |-> DeviceModel(coordinator_data)]

\* MyPVForecastSensor.__init__
MyPVForecastSensor(coordinator_data, entry_id, date, name) ==
    [cls |-> "MyPVForecastSensor",
     coordinator |-> "forecast",
     key |-> date,
     unique_id |-> entry_id \o SEP \o <<"forecast">> \o SEP \o date,
     name |-> name,
     known |-> TRUE,
     model |-> DeviceModel(coordinator_data)]

\* value is None or value == ""
IsEmptyValue(value) == value.t = "none" \/ (value.t = "str" /\ value.s = <<>>)

\* the loop of _create_sensors_from_data over flat_data.items()
RECURSIVE SensorsOf(_, _, _, _)
SensorsOf(flat_items, coordinator_data, entry_id, data_type) ==
    IF flat_items = <<>> THEN <<>>
    ELSE (IF IsEmptyValue(Head(flat_items)[2]) THEN <<>>
          ELSE <<MyPVSensor(coordinator_data, entry_id, Head(flat_items)[1], data_type)>>)
         \o SensorsOf(Tail(flat_items), coordinator_data, entry_id, data_type)

_create_sensors_from_data(coordinator_data, entry_id, data_type) ==
    IF ~Truthy(coordinator_data) THEN <<>>
    ELSE SensorsOf(Flat(coordinator_data), coordinator_data, entry_id, data_type)

\* the order of Python's str comparison on the tokens that date keys are made
\* of: the code point of the token's first character
TokRank(tok) ==
    CASE tok = " " -> 32
      [] tok = "0" -> 48 [] tok = "1" -> 49 [] tok = "2" -> 50 [] tok = "3" -> 51
      [] tok = "4" -> 52 [] tok = "5" -> 53 [] tok = "6" -> 54 [] tok = "7" -> 55
      [] tok = "8" -> 56 [] tok = "9" -> 57
      [] tok = "2026-01-1" -> 50
      [] tok = "_" -> 95
      [] OTHER -> 97

\* a < b for two strings
RECURSIVE StrLess(_, _)
StrLess(a, b) ==
    IF b = <<>> THEN FALSE
    ELSE IF a = <<>> THEN TRUE
    ELSE IF TokRank(Head(a)) # TokRank(Head(b)) THEN TokRank(Head(a)) < TokRank(Head(b))
    ELSE StrLess(Tail(a), Tail(b))

\* sorted(keys), by insertion
RECURSIVE Insert(_, _)
Insert(k, sorted) ==
    IF sorted = <<>> THEN <<k>>
    ELSE IF StrLess(k, Head(sorted)) THEN <<k>> \o sorted
    ELSE <<Head(sorted)>> \o Insert(k, Tail(sorted))

RECURSIVE Sorted(_)
Sorted(keys) == IF keys = <<>> THEN <<>> ELSE Insert(Head(keys), Sorted(Tail(keys)))

\* the names _create_forecast_sensors gives by position
ForecastName(i) ==
    CASE i = 0 -> <<"Solar Forecast Today">>
      [] i = 1 -> <<"Solar Forecast Tomorrow">>
      [] OTHER -> <<"Solar Forecast Day After Tomorrow">>

\* "Maximum 3 days"
MAX_FORECAST_DAYS == 3

\* _create_forecast_sensors: the entities, or the AttributeError of calling
\* .get / .keys on a value that is no dict
_create_forecast_sensors(coordinator_data, entry_id) ==
    IF ~Truthy(coordinator_data) THEN Returned(<<>>)
    ELSE IF ~IsDict(coordinator_data) THEN Raised(<<"AttributeError">>)
    ELSE LET watt_hours_day == Get(coordinator_data.items, <<"watt_hours_day">>, EmptyDict)
         IN IF ~Truthy(watt_hours_day) THEN Returned(<<>>)
            ELSE IF ~IsDict(watt_hours_day) THEN Raised(<<"AttributeError">>)
            ELSE LET sorted_dates == Sorted(KeySeq(watt_hours_day.items))
                     n == IF Len(sorted_dates) < MAX_FORECAST_DAYS
                          THEN Len(sorted_dates) ELSE MAX_FORECAST_DAYS
                 IN Returned([i \in 1..n |->
                        MyPVForecastSensor(coordinator_data, entry_id,
                                           sorted_dates[i], ForecastName(i - 1))])

\* MyPVForecastSensor.native_value of the sensor of "date"
forecast_native_value(coordinator_data, date) ==
    IF coordinator_data.t = "none" THEN Returned(PyNone)
    ELSE IF ~IsDict(coordinator_data) THEN Raised(<<"AttributeError">>)
    ELSE LET watt_hours_day == Get(coordinator_data.items, <<"watt_hours_day">>, EmptyDict)
         IN IF ~IsDict(watt_hours_day) THEN Raised(<<"AttributeError">>)
            ELSE Returned(Get(watt_hours_day.items, date, PyNone))

K_hourly_forecast == <<"hourly", "_", "forecast">>

\* a variant of HourlyData without the test of the date prefix
RECURSIVE HourlyDataAnyDate(_, _, _)
HourlyDataAnyDate(watt_items, date, hourly_data) ==
    IF watt_items = <<>> THEN hourly_data
    ELSE LET timestamp == Head(watt_items)[1]
             time_part == IF HasBlank(timestamp) THEN Split(timestamp, <<>>)[2]
                          ELSE timestamp
         IN HourlyDataAnyDate(Tail(watt_items), date,
                              Put(hourly_data, time_part, Head(watt_items)[2]))

\* the loop of extra_state_attributes over watt_hours.items(), building hourly_data
RECURSIVE HourlyData(_, _, _)
HourlyData(watt_items, date, hourly_data) ==
    IF watt_items = <<>> THEN hourly_data
    ELSE LET timestamp == Head(watt_items)[1]
             value == Head(watt_items)[2]
             time_part == IF HasBlank(timestamp) THEN Split(timestamp, <<>>)[2]
                          ELSE timestamp
         IN HourlyData(Tail(watt_items), date,
                       IF StartsWith(timestamp, date)
                       THEN Put(hourly_data, time_part, value)
                       ELSE hourly_data)

\* MyPVForecastSensor.extra_state_attributes of the sensor of "date": the items
\* of the attributes dict
forecast_extra_state_attributes(coordinator_data, serial, date) ==
    LET attributes == << <<<<"serial">>, PyStr(serial)>>, <<<<"date">>, PyStr(date)>> >>
    IN IF ~Truthy(coordinator_data) THEN Returned(attributes)
       ELSE IF ~IsDict(coordinator_data) THEN Raised(<<"AttributeError">>)
       ELSE LET watt_hours == Get(coordinator_data.items, <<"watt_hours">>, EmptyDict)
            IN IF ~IsDict(watt_hours) THEN Raised(<<"AttributeError">>)
               ELSE LET hourly_data == HourlyData(watt_hours.items, date, <<>>)
                    IN IF hourly_data # <<>>
                       THEN Returned(Append(attributes,
                                <<K_hourly_forecast, PyDict(hourly_data)>>))
                       ELSE Returned(attributes)

-----------------------------------------------------------------------------
(* What the cloud API answers: the JSON bodies each endpoint may return *)

D14 == <<"2026-01-1", "4">>
D15 == <<"2026-01-1", "5">>
D16 == <<"2026-01-1", "6">>
D17 == <<"2026-01-1", "7">>

At(date, time) == date \o BLANK \o <<time>>

DataBodies ==
    { PyDict(<< <<K_temp1, PyInt(237)>> >>),
      PyDict(<< <<K_temp1, PyInt(2371)>>, <<<<"x">>, PyInt(5)>> >>),
      PyDict(<< <<K_temp1, PyStr(<<>>)>>, <<<<"x">>, PyNone>> >>),
      PyDict(<< <<<<"x">>, PyNone>>, <<<<"y">>, PyStr(<<>>)>> >>),
      PyDict(<< <<<<"a">>, PyDict(<< <<<<"b">>, PyInt(1)>> >>)>>,
                <<K_screen_mode_flag, PyInt(1)>>,
                <<<<"x">>, PyInt(4)>>,
                <<<<"soc", "_", "x">>, PyInt(6)>>,
                <<<<"forecast">>, PyDict(<< <<D14, PyInt(8)>> >>)>> >>),
      EmptyDict }

SocBodies ==
    { PyDict(<< <<<<"soc">>, PyInt(50)>>, <<<<"x">>, PyInt(7)>> >>),
      PyDict(<< <<<<"soc">>, PyStr(<<>>)>>, <<K_cur_eth_mode, PyInt(1)>> >>),
      PyList,
      PyNone }

ForecastBodies ==
    { PyDict(<< <<<<"watt_hours">>,
                  PyDict(<< <<At(D14, "08:00:00"), PyInt(97)>>,
                            <<At(D15, "08:00:00"), PyInt(10)>>,
                            <<At(D14, "09:00:00"), PyInt(120)>> >>)>>,
                <<<<"watt_hours_day">>,
                  PyDict(<< <<D15, PyInt(100)>>, <<D14, PyInt(200)>>,
                            <<D16, PyInt(50)>> >>)>> >>),
      PyDict(<< <<<<"watt_hours">>,
                  PyDict(<< <<At(D15, "08:00:00"), PyInt(11)>>,
                            <<At(D17, "08:00:00"), PyInt(30)>> >>)>>,
                <<<<"watt_hours_day">>,
                  PyDict(<< <<D15, PyInt(110)>>, <<D16, PyInt(60)>>,
                            <<D17, PyInt(70)>>, <<D14, PyInt(0)>> >>)>> >>),
      PyDict(<< <<<<"watt_hours_day">>,
                  PyDict(<< <<D16, PyInt(55)>>, <<D17, PyInt(75)>> >>)>> >>),
      EmptyDict,
      PyStr(<<"error">>) }

Bodies(endpoint) ==
    CASE endpoint = "/data" -> DataBodies
      [] endpoint = "/data/soc" -> SocBodies
      [] endpoint = "/solarForecast" -> ForecastBodies

\* statuses raise_for_status lets pass, and statuses it raises for
PassStatuses == {200, 304}
ErrorStatuses == {404, 500}

\* everything the network may do to a GET of "endpoint"
NetEvents(endpoint) ==
    {Response(st, b) : st \in PassStatuses, b \in Bodies(endpoint)}
        \cup {Response(st, PyNone) : st \in ErrorStatuses}
        \cup {BadJson, ClientError, Timeout}

-----------------------------------------------------------------------------
(* The pollers and the set-up of the sensor platform *)

MaxTicks == 3

NoSnapshot == [ok |-> FALSE, body |-> PyNone]

NoCall == [p |-> "none", net |-> "none", status |-> 0, exc |-> <<>>,
           cancelled |-> {}, gets |-> <<>>]

\* the record of the _async_update_data call of poller p that has just
\* finished; the next call to start clears it
Call(p, ev, r) ==
    [p |-> p, net |-> ev.kind, status |-> ev.status,
     exc |-> r.exc, cancelled |-> {}, gets |-> Requests(p)]

\* the coordinators async_setup_entry refreshes first, in its order
RefreshPhase(p) ==
    CASE p = "data" -> "refresh_data"
      [] p = "soc" -> "refresh_soc"
      [] p = "forecast" -> "refresh_forecast"

\* the entity list async_setup_entry builds once the three first refreshes
\* are done, or the exception that ends it
SetupEntities(d) ==
    LET data_sensors == IF Truthy(d["data"])
                        THEN _create_sensors_from_data(d["data"], ENTRY_ID, "data")
                        ELSE <<>>
        soc_sensors == IF Truthy(d["soc"])
                       THEN _create_sensors_from_data(d["soc"], ENTRY_ID, "soc")
                       ELSE <<>>
        forecast_sensors == IF Truthy(d["forecast"])
                            THEN _create_forecast_sensors(d["forecast"], ENTRY_ID)
                            ELSE Returned(<<>>)
    IN IF forecast_sensors.exc # <<>> THEN forecast_sensors
       ELSE Returned(data_sensors \o soc_sensors \o forecast_sensors.value)

\* the coordinator has listeners: the host schedules its timer only then
HasListeners(p) == \E n \in 1..Len(entities) : entities[n].coordinator = p

NoneInFlight == [p \in DataTypes |-> FALSE]

NoneOutstanding == [p \in DataTypes |-> 0]

\* the GETs of one more _async_update_data call of p are sent
Sent(out, p) == [out EXCEPT ![p] = @ + Len(Requests(p))]

\* the GET of p that was awaited has its response, or has failed
Answered(out, p) == [out EXCEPT ![p] = @ - 1]

\* the flattener probe before any call
NoFlatten == [called |-> FALSE, wrapped |-> <<>>, inner |-> <<>>]

FlowIds == {"f1", "f2"}

\* a config flow nobody has opened
NoFlow == [step |-> "none", serial |-> <<>>, errors |-> "", result |-> "",
           reason |-> "", gets |-> <<>>, fetch |-> "none",
           validated |-> "none", net |-> "none", status |-> 0]

\* no config flow is open and the domain has no config entry
FlowIdle ==
    /\ flows = [f \in FlowIds |-> NoFlow]
    /\ configEntries = <<>>

\* the flattener probe is not in use
FlIdle ==
    /\ flKey = <<>>
    /\ flInner = EmptyDict
    /\ flOut = NoFlatten

\* the config entries whose set-up and unload the registry model follows
RegEntryIds == {<<"E1">>, <<"E2">>, <<"E3">>}

NoOp == [op |-> "none", entry |-> <<>>, result |-> FALSE]

\* no entry of the domain has been set up: hass.data has no DOMAIN dict yet,
\* which reads as the empty dict
RegIdle ==
    /\ registry = <<>>
    /\ entryState = [e \in RegEntryIds |-> "not_loaded"]
    /\ loadedEntries = {}
    /\ lastOp = NoOp

\* the probes other than the transformer's are not in use
AuxIdle == FlIdle /\ FlowIdle /\ RegIdle

Init ==
    /\ phase = "unloaded"
    /\ data = [p \in DataTypes |-> PyNone]
    /\ inflight = NoneInFlight
    /\ lastOk = [p \in DataTypes |-> NoSnapshot]
    /\ lastCall = NoCall
    /\ entities = <<>>
    /\ ticks = 0
    /\ outstanding = NoneOutstanding
    /\ nvKey = <<>>
    /\ nvValue = PyNone
    /\ nvOut = [called |-> FALSE, exc |-> <<>>, value |-> PyNone]
    /\ AuxIdle

\* async_setup_entry up to its first await: three new coordinators, the first
\* refresh of the data coordinator under way
SetupEntry ==
    /\ phase \in {"unloaded", "not_ready", "failed"}
    /\ phase' = "refresh_data"
    /\ data' = [p \in DataTypes |-> PyNone]
    /\ lastOk' = [p \in DataTypes |-> NoSnapshot]
    /\ inflight' = [NoneInFlight EXCEPT !["data"] = TRUE]
    /\ outstanding' = Sent(NoneOutstanding, "data")
    /\ entities' = <<>>
    /\ lastCall' = NoCall
    /\ UNCHANGED <<ticks, nvVars, auxVars>>

\* a first refresh returns: the snapshot is set and async_setup_entry goes on,
\* to the next first refresh or, after the last, to async_add_entities
FirstRefreshOk(p) ==
    /\ phase = RefreshPhase(p)
    /\ inflight[p]
    /\ \E ev \in NetEvents(Endpoint(p)) :
         LET r == _async_update_data(p, ev)
             d == [data EXCEPT ![p] = r.value]
             made == SetupEntities(d)
         IN /\ r.exc = <<>>
            /\ data' = d
            /\ lastOk' = [lastOk EXCEPT ![p] = [ok |-> TRUE, body |-> ev.body]]
            /\ lastCall' = Call(p, ev, r)
            /\ CASE p = "data" ->
                      /\ phase' = "refresh_soc"
                      /\ inflight' = [NoneInFlight EXCEPT !["soc"] = TRUE]
                      /\ outstanding' = Sent(Answered(outstanding, p), "soc")
                      /\ entities' = <<>>
                 [] p = "soc" ->
                      /\ phase' = "refresh_forecast"
                      /\ inflight' = [NoneInFlight EXCEPT !["forecast"] = TRUE]
                      /\ outstanding' = Sent(Answered(outstanding, p), "forecast")
                      /\ entities' = <<>>
                 [] p = "forecast" ->
                      /\ phase' = IF made.exc = <<>> THEN "running" ELSE "failed"
                      /\ inflight' = NoneInFlight
                      /\ outstanding' = Answered(outstanding, p)
                      /\ entities' = IF made.exc = <<>> THEN made.value ELSE <<>>
    /\ UNCHANGED <<ticks, nvVars, auxVars>>

\* a first refresh raises UpdateFailed: async_config_entry_first_refresh turns
\* it into ConfigEntryNotReady and async_setup_entry ends there
FirstRefreshFails(p) ==
    /\ phase = RefreshPhase(p)
    /\ inflight[p]
    /\ \E ev \in NetEvents(Endpoint(p)) :
         LET r == _async_update_data(p, ev)
         IN /\ r.exc # <<>>
            /\ lastCall' = Call(p, ev, r)
    /\ phase' = "not_ready"
    /\ inflight' = NoneInFlight
    /\ outstanding' = Answered(outstanding, p)
    /\ UNCHANGED <<data, lastOk, entities, ticks, nvVars, auxVars>>

\* the timer of poller p fires: _async_update_data starts and awaits its GET
Tick(p) ==
    /\ phase = "running"
    /\ ~inflight[p]
    /\ HasListeners(p)
    /\ ticks < MaxTicks
    /\ ticks' = ticks + 1
    /\ inflight' = [inflight EXCEPT ![p] = TRUE]
    /\ outstanding' = Sent(outstanding, p)
    /\ lastCall' = NoCall
    /\ UNCHANGED <<phase, data, lastOk, entities, nvVars, auxVars>>

\* the GET of a tick ends and _async_update_data returns: the coordinator
\* replaces its data
RefreshOk(p) ==
    /\ phase = "running"
    /\ inflight[p]
    /\ \E ev \in NetEvents(Endpoint(p)) :
         LET r == _async_update_data(p, ev)
         IN /\ r.exc = <<>>
            /\ data' = [data EXCEPT ![p] = r.value]
            /\ lastOk' = [lastOk EXCEPT ![p] = [ok |-> TRUE, body |-> ev.body]]
            /\ lastCall' = Call(p, ev, r)
    /\ inflight' = [inflight EXCEPT ![p] = FALSE]
    /\ outstanding' = Answered(outstanding, p)
    /\ UNCHANGED <<phase, entities, ticks, nvVars, auxVars>>

\* the GET of a tick ends and _async_update_data raises: the coordinator logs
\* the failure and keeps its data
RefreshFails(p) ==
    /\ phase = "running"
    /\ inflight[p]
    /\ \E ev \in NetEvents(Endpoint(p)) :
         LET r == _async_update_data(p, ev)
         IN /\ r.exc # <<>>
            /\ lastCall' = Call(p, ev, r)
    /\ inflight' = [inflight EXCEPT ![p] = FALSE]
    /\ outstanding' = Answered(outstanding, p)
    /\ UNCHANGED <<phase, data, lastOk, entities, ticks, nvVars, auxVars>>

\* the entry is unloaded: the entities go, the timers are released and every
\* poll in flight is cancelled (CancelledError passes "except Exception")
Unload ==
    /\ phase = "running"
    /\ phase' = "unloaded"
    /\ entities' = <<>>
    /\ inflight' = NoneInFlight
    /\ outstanding' = NoneOutstanding
    /\ lastCall' = IF \E p \in DataTypes : inflight[p]
                   THEN [p |-> "none", net |-> "cancelled",
                         status |-> 0, exc |-> <<"CancelledError">>,
                         cancelled |-> {p \in DataTypes : inflight[p]},
                         gets |-> <<>>]
                   ELSE lastCall
    /\ UNCHANGED <<data, lastOk, ticks, nvVars, auxVars>>

Next ==
    \/ SetupEntry
    \/ \E p \in DataTypes : FirstRefreshOk(p)
    \/ \E p \in DataTypes : FirstRefreshFails(p)
    \/ \E p \in DataTypes : Tick(p)
    \/ \E p \in DataTypes : RefreshOk(p)
    \/ \E p \in DataTypes : RefreshFails(p)
    \/ Unload

Spec == Init /\ [][Next]_vars

-----------------------------------------------------------------------------
(* Claims about the pollers and the projected sensors (checked under Spec) *)

\* the fetch of a finished call failed: no answer in time, a transport failure,
\* an HTTP error status, or a body that is no JSON
FetchFailed(call) ==
    \/ call.net \in {"timeout", "client_error", "bad_json"}
    \/ call.net = "response" /\ call.status >= 400

\* the refresh of poller p ends in this step
Finishes(p) == inflight[p] /\ ~inflight'[p] /\ lastCall'.p = p

\* C1: for every poller, a tick whose fetch fails (timeout, transport error,
\* HTTP error, any other exception) leaves the poller's snapshot exactly as it
\* was; a poller that holds a snapshot never loses it to a failure.
C1_FailureKeepsSnapshot ==
    [][\A p \in DataTypes :
         (Finishes(p) /\ FetchFailed(lastCall'))
             => /\ data'[p] = data[p]
                /\ data[p].t # "none" => data'[p].t # "none"]_vars

\* a tick of the data poller has timed out while it holds a snapshot
C1_Witness ==
    /\ phase = "running"
    /\ lastCall.p = "data"
    /\ lastCall.net = "timeout"
    /\ data["data"].t = "dict"

\* the bodies of a poller's own category
OwnBodies(p) ==
    CASE p = "data" -> DataBodies [] p = "soc" -> SocBodies [] p = "forecast" -> ForecastBodies

\* C2: a poller's snapshot is absent (no successful fetch yet) or exactly the
\* whole payload of the most recent successful fetch of its own category, never
\* a merge of two payloads or a part of one, also after a poll was cancelled
\* in flight.
C2_SnapshotIsLastPayload ==
    \A p \in DataTypes :
        IF lastOk[p].ok
        THEN data[p] = lastOk[p].body /\ data[p] \in OwnBodies(p)
        ELSE data[p] = PyNone

\* a poll of the data poller was cancelled in flight over a held snapshot
C2_Witness ==
    /\ lastCall.net = "cancelled"
    /\ "data" \in lastCall.cancelled
    /\ lastOk["data"].ok
    /\ data["data"] = lastOk["data"].body
    /\ Truthy(data["data"])

\* the kind of exception a failed fetch starts from
OriginalCause(call) ==
    CASE call.net = "timeout" -> "TimeoutError"
      [] call.net = "client_error" -> "ClientError"
      [] call.net = "bad_json" -> "JSONDecodeError"
      [] OTHER -> "ClientResponseError"

\* C3: every failure of a poller's refresh, whatever its cause (timeout,
\* transport failure, HTTP error status, another exception in the fetcher, an
\* unknown poller category), leaves the refresh as UpdateFailed carrying the
\* original cause; no other error kind leaves it.
C3_OnlyUpdateFailed ==
    /\ (lastCall.p \in DataTypes /\ FetchFailed(lastCall))
           => /\ Len(lastCall.exc) >= 2
              /\ lastCall.exc[1] = "UpdateFailed"
              /\ lastCall.exc[Len(lastCall.exc)] = OriginalCause(lastCall)
    /\ (lastCall.p \in DataTypes /\ lastCall.exc # <<>>)
           => lastCall.exc[1] = "UpdateFailed"
    /\ \A ev \in NetEvents("/data") :
           LET r == _async_update_data("unknown", ev)
           IN Len(r.exc) >= 2 /\ r.exc[1] = "UpdateFailed"

\* a refresh has timed out and left as UpdateFailed with its causes
C3_Witness ==
    /\ lastCall.p = "soc"
    /\ lastCall.net = "timeout"
    /\ lastCall.exc = <<"UpdateFailed", "Exception", "TimeoutError">>

\* the positions of the MyPVSensor entities of poller p and key k
SensorsFor(p, k) ==
    {n \in 1..Len(entities) :
        /\ entities[n].cls = "MyPVSensor"
        /\ entities[n].coordinator = p
        /\ entities[n].key = k}

\* the keys of p's flattened snapshot whose value is neither null nor empty
Projectable(p) ==
    LET flat == Flat(data[p])
    IN {flat[n][1] : n \in {m \in 1..Len(flat) : ~IsEmptyValue(flat[m][2])}}

\* C4: for the data and soc pollers, after any sequence of successful polls,
\* every key of the flattened current snapshot with a non-null, non-empty value
\* is exposed as one named sensor (descriptor name for a known key, derived
\* name for an unknown one), also a key that first appears in a later snapshot.
C4_EveryKeyExposed ==
    phase = "running"
        => \A p \in {"data", "soc"} : \A k \in Projectable(p) :
              /\ Cardinality(SensorsFor(p, k)) = 1
              /\ \A n \in SensorsFor(p, k) :
                    entities[n].name = IF "name" \in DOMAIN SensorConfig(k)
                                       THEN SensorConfig(k).name
                                       ELSE _format_sensor_name(k)

\* C5: no projected data/soc sensor has a raw value of null or empty string in
\* its poller's current snapshot; such a value is never handed to native_value
\* and exposed as a reading.
C5_NoEmptyProjected ==
    \A n \in 1..Len(entities) :
        entities[n].cls = "MyPVSensor"
            => LET flat == Flat(data[entities[n].coordinator])
               IN HasKey(flat, entities[n].key)
                     => ~IsEmptyValue(Get(flat, entities[n].key, PyNone))

\* the forecast entities, in the order they were created
ForecastEntities ==
    SelectSeq(entities, LAMBDA e : e.cls = "MyPVForecastSensor")

\* the watt_hours_day items of the forecast poller's current snapshot
CurrentDays ==
    IF IsDict(data["forecast"])
    THEN Get(data["forecast"].items, <<"watt_hours_day">>, EmptyDict).items
    ELSE <<>>

\* C6: the forecast projection of the current snapshot is one ForecastDay per
\* date for at most the three earliest dates of watt_hours_day, ascending,
\* named Today, Tomorrow, Day After Tomorrow, each valued with its date's
\* total; also after the snapshot was replaced by one with other dates.
C6_ForecastOfCurrentSnapshot ==
    phase = "running"
        => LET fs == ForecastEntities
               days == CurrentDays
           IN /\ Len(fs) = IF Len(days) < 3 THEN Len(days) ELSE 3
              /\ \A i \in 1..Len(fs) :
                    /\ HasKey(days, fs[i].key)
                    /\ fs[i].name = ForecastName(i - 1)
                    /\ forecast_native_value(data["forecast"], fs[i].key)
                          = Returned(Get(days, fs[i].key, PyNone))
                    /\ \A j \in 1..Len(fs) : i < j => StrLess(fs[i].key, fs[j].key)
                    /\ \A d \in Keys(days) \ {fs[j].key : j \in 1..Len(fs)} :
                          StrLess(fs[i].key, d)

\* the {time: value} pairs of the hourly_forecast attribute (none when the
\* attribute is absent)
HourlyPairs(attributes) ==
    LET hourly == Get(attributes, K_hourly_forecast, EmptyDict).items
    IN {<<hourly[n][1], hourly[n][2]>> : n \in 1..Len(hourly)}

\* the watt_hours items of the forecast poller's current snapshot
CurrentHours ==
    IF IsDict(data["forecast"])
    THEN Get(data["forecast"].items, <<"watt_hours">>, EmptyDict).items
    ELSE <<>>

\* the entries of watt_hours whose key is "<date> <time>", as {time: value} pairs
PairsOfDate(hours, date) ==
    {<<SubSeq(hours[n][1], Len(date) + 2, Len(hours[n][1])), hours[n][2]>> :
        n \in {m \in 1..Len(hours) :
                  /\ Len(hours[m][1]) > Len(date) + 1
                  /\ SubSeq(hours[m][1], 1, Len(date)) = date
                  /\ hours[m][1][Len(date) + 1] = " "}}

\* C7: for a ForecastDay of date D the HourlyForecast attribute is exactly the
\* mapping {time: value} over the entries of the current snapshot's watt_hours
\* whose key is "D time", keyed by the time of day, with no entry of another
\* date (the attribute is left out when there is no such entry).
C7_HourlyOfTheDay ==
    phase = "running"
        => \A n \in 1..Len(entities) :
              entities[n].cls = "MyPVForecastSensor"
                 => LET r == forecast_extra_state_attributes(
                                 data["forecast"], SERIAL, entities[n].key)
                    IN /\ r.exc = <<>>
                       /\ HourlyPairs(r.value) = PairsOfDate(CurrentHours, entities[n].key)
                       /\ HasKey(r.value, K_hourly_forecast)
                             <=> PairsOfDate(CurrentHours, entities[n].key) # {}
                       /\ Cardinality(HourlyPairs(r.value))
                             = Len(Get(r.value, K_hourly_forecast, EmptyDict).items)

\* the sensor of 2026-01-14 carries that day's two hours while the snapshot
\* also holds an hour of 2026-01-15
C7_Witness ==
    /\ phase = "running"
    /\ \E n \in 1..Len(entities) :
          /\ entities[n].cls = "MyPVForecastSensor"
          /\ entities[n].key = D14
          /\ HourlyPairs(forecast_extra_state_attributes(
                             data["forecast"], SERIAL, D14).value)
                = {<<<<"08:00:00">>, PyInt(97)>>, <<<<"09:00:00">>, PyInt(120)>>}
    /\ \E m \in 1..Len(CurrentHours) : StartsWith(CurrentHours[m][1], D15)

\* the projection of poller p's snapshot d, as async_setup_entry calls it
ProjectionOf(p, d) ==
    IF p = "forecast" THEN _create_forecast_sensors(d, ENTRY_ID)
    ELSE Returned(_create_sensors_from_data(d, ENTRY_ID, p))

\* what the host gets when it reads the state of entity e over snapshot d
ValueRead(e, d, tie) ==
    IF e.cls = "MyPVForecastSensor" THEN forecast_native_value(d, e.key)
    ELSE native_value(d, e.key, tie)

\* what the host gets when it reads the attributes of entity e over snapshot
\* d: a MyPVSensor returns its two constant attributes
AttributesRead(e, d) ==
    IF e.cls = "MyPVForecastSensor"
    THEN forecast_extra_state_attributes(d, SERIAL, e.key)
    ELSE Returned(<< <<<<"serial">>, PyStr(SERIAL)>>,
                     <<<<"data", "_", "type">>, PyStr(<<e.coordinator>>)>> >>)

\* C12: when a successful fetch returned a top-level body that is no object
\* (a string, a list, null), flatten returns the empty mapping and, for each of
\* the three categories, the projection of that snapshot yields no sensor and
\* every value or attribute read over it yields no value, none of them raising.
C12_NonObjectBodyIsEmpty ==
    \A p \in DataTypes :
        (lastOk[p].ok /\ ~IsDict(data[p]))
            => /\ Flat(data[p]) = <<>>
               /\ ProjectionOf(p, data[p]) = Returned(<<>>)
               /\ phase # "failed"
               /\ \A n \in 1..Len(entities) :
                     entities[n].coordinator = p
                         => /\ \A tie \in {"up", "down"} :
                                  ValueRead(entities[n], data[p], tie) = Returned(PyNone)
                            /\ AttributesRead(entities[n], data[p]).exc = <<>>
                            /\ ~HasKey(AttributesRead(entities[n], data[p]).value,
                                       K_hourly_forecast)

\* the HTTP statuses of the 2xx class
Is2xx(status) == status \in 200..299

\* C13: a fetch returns a payload to its caller only when the HTTP status of
\* the response is 2xx; a response with any other status makes the refresh
\* raise, returns no payload and leaves the poller's snapshot as it was.
C13_Only2xxReturns ==
    [][\A p \in DataTypes :
         (Finishes(p) /\ lastCall'.net = "response" /\ ~Is2xx(lastCall'.status))
             => /\ lastCall'.exc # <<>>
                /\ data'[p] = data[p]
                /\ lastOk'[p] = lastOk[p]]_vars

\* the entities of poller q among a list of entities
EntitiesOf(q, entity_list) == SelectSeq(entity_list, LAMBDA e : e.coordinator = q)

\* C16: the three pollers are independent: the end of a fetch of one poller,
\* its first fetch at set-up included, whatever its outcome, neither starts nor
\* stops a fetch of another poller, leaves the other pollers' snapshots as
\* they were and does not change which sensors of another poller are exposed.
C16_PollersIndependent ==
    [][\A p \in DataTypes : \A q \in DataTypes \ {p} :
         Finishes(p)
             => /\ inflight'[q] = inflight[q]
                /\ data'[q] = data[q]
                /\ EntitiesOf(q, entities') = EntitiesOf(q, entities)]_vars

SnapshotHolds(e, d) ==
    IF e.cls = "MyPVForecastSensor"
    THEN /\ IsDict(d)
         /\ IsDict(Get(d.items, <<"watt_hours_day">>, EmptyDict))
         /\ HasKey(Get(d.items, <<"watt_hours_day">>, EmptyDict).items, e.key)
    ELSE HasKey(Flat(d), e.key)

\* C18: a sensor's value is computed when it is read, from the current
\* snapshot of its poller only: a sensor whose key (or, for a forecast sensor,
\* date) is not in the current snapshot reads None, never a value of an earlier
\* snapshot, and while its poller holds no snapshot every sensor reads None.
C18_ReadsCurrentSnapshotOnly ==
    \A n \in 1..Len(entities) : \A tie \in {"up", "down"} :
        LET e == entities[n]
            d == data[e.coordinator]
        IN /\ d = PyNone => ValueRead(e, d, tie) = Returned(PyNone)
           /\ ~SnapshotHolds(e, d) => ValueRead(e, d, tie) = Returned(PyNone)

\* C19: among the sensors one set-up creates for a config entry (data, soc
\* and forecast sensors together) no two have the same unique id: the ids
\* "<entry_id>_<category>_<key>" and "<entry_id>_forecast_<date>" differ for
\* different (category, flattened key) pairs, also when a flattened key holds
\* underscores or the name of a category.
C19_UniqueIdsDistinct ==
    \A i, j \in 1..Len(entities) :
        entities[i].unique_id = entities[j].unique_id => i = j

\* one set-up has created a data sensor and a soc sensor of the same key, data
\* sensors whose keys start with the name of another category, and the
\* forecast sensor of the date one of those keys ends with
C19_Witness ==
    /\ phase = "running"
    /\ SensorsFor("data", <<"x">>) # {}
    /\ SensorsFor("soc", <<"x">>) # {}
    /\ SensorsFor("data", <<"soc", "_", "x">>) # {}
    /\ SensorsFor("data", <<"forecast", "_">> \o D14) # {}
    /\ \E n \in 1..Len(entities) :
          entities[n].cls = "MyPVForecastSensor" /\ entities[n].key = D14

-----------------------------------------------------------------------------
(* The reading transformer taken alone: native_value of a sensor of nvKey     *)
(* while the snapshot is {nvKey: nvValue}                                     *)

MaxEnum == 8

NvKeys == {K_screen_mode_flag, K_cur_eth_mode, K_temp1, K_curr_L2, K_freq,
           K_load_nom, <<"x">>}

NvValues ==
    {PyInt(n) : n \in 0..MaxEnum}
        \cup {PyInt(99), PyInt(237), PyInt(2371), PyInt(50015), PyInt(50018),
              PyInt(-15), PyInt(-18)}
        \cup {PyIntE(1, 300), PyIntE(1, 308), PyIntE(2, 308), PyIntE(1, 400)}
        \cup {PyFloat(2375, 3), PyFloat(125, 2), PyFloat(-5, 1), PyFloat(12344, 2)}
        \cup {PyBool(TRUE), PyBool(FALSE)}
        \cup {PyStr(<<"on">>), PyStr(<<>>), PyList, PyNone}

Ties == {"up", "down"}

InitNV ==
    /\ phase = "unloaded"
    /\ data = [p \in DataTypes |-> PyNone]
    /\ inflight = NoneInFlight
    /\ lastOk = [p \in DataTypes |-> NoSnapshot]
    /\ lastCall = NoCall
    /\ entities = <<>>
    /\ ticks = 0
    /\ outstanding = NoneOutstanding
    /\ nvKey \in NvKeys
    /\ nvValue \in NvValues
    /\ nvOut = [called |-> FALSE, exc |-> <<>>, value |-> PyNone]
    /\ AuxIdle

\* the host reads the sensor's state
ReadNativeValue ==
    /\ ~nvOut.called
    /\ \E tie \in Ties :
         LET r == native_value(PyDict(<< <<nvKey, nvValue>> >>), nvKey, tie)
         IN nvOut' = [called |-> TRUE, exc |-> r.exc, value |-> r.value]
    /\ UNCHANGED <<pollerVars, nvKey, nvValue, auxVars>>

NextNV == ReadNativeValue

SpecNV == InitNV /\ [][NextNV]_vars

-----------------------------------------------------------------------------
(* Claims about the reading transformer (checked under SpecNV) *)

EnumKeys == {K_screen_mode_flag, K_cur_eth_mode}

\* the label table of an enum key, and the integers it registers
EnumTable(key) == IF key = K_screen_mode_flag THEN status_map ELSE mode_map

Registered(key, v) == v.e = 0 /\ HasKey(EnumTable(key), v.i)

\* "Unknown (<v>)" for an integer written with its decimal digits
UnknownOf(v) == PyStr(<<"Unknown (">> \o FormatInt(v) \o <<")">>)

\* the general part of C8: on an enum key an integer goes through the key's
\* table, an unregistered one to "Unknown (v)", and nothing is raised
EnumMapped ==
    (nvOut.called /\ nvKey \in EnumKeys /\ nvValue.t = "int")
        => /\ nvOut.exc = <<>>
           /\ nvOut.value = IF Registered(nvKey, nvValue)
                            THEN PyStr(Get(EnumTable(nvKey), nvValue.i, <<>>))
                            ELSE UnknownOf(nvValue)

Unknown99 ==
    (nvOut.called /\ nvKey \in EnumKeys /\ nvValue = PyInt(99))
        => nvOut.value = PyStr(<<"Unknown (", "9", "9", ")">>)

\* C8 as stated: on both enum keys (device-mode key screen_mode_flag,
\* network-mode key cur_eth_mode) an integer is mapped through the key's table,
\* an unregistered integer v gives "Unknown (v)" without failing, and the
\* device-mode key with raw value 1 gives "WLAN", with 99 "Unknown (99)".
C8_Original ==
    /\ EnumMapped
    /\ Unknown99
    /\ (nvOut.called /\ nvKey = K_screen_mode_flag /\ nvValue = PyInt(1))
           => nvOut.value = PyStr(<<"WLAN">>)

\* C8 amended: on both enum keys an integer is mapped through the key's table
\* and an unregistered integer v gives "Unknown (v)" without failing; it is the
\* network-mode key cur_eth_mode that gives "WLAN" for raw value 1 (the
\* device-mode key screen_mode_flag gives "Heating"), and either key gives
\* "Unknown (99)" for 99.
C8_EnumLabels ==
    /\ EnumMapped
    /\ Unknown99
    /\ (nvOut.called /\ nvKey = K_cur_eth_mode /\ nvValue = PyInt(1))
           => nvOut.value = PyStr(<<"WLAN">>)
    /\ (nvOut.called /\ nvKey = K_screen_mode_flag /\ nvValue = PyInt(1))
           => nvOut.value = PyStr(<<"Heating">>)

\* an unregistered integer has been read on the device-mode key
C8_Witness ==
    /\ nvOut.called
    /\ nvKey = K_screen_mode_flag
    /\ nvValue = PyInt(99)
    /\ nvOut.value = PyStr(<<"Unknown (", "9", "9", ")">>)

\* a numeric raw value as mantissa and count of decimals
Mantissa(v) ==
    CASE v.t = "bool" -> (IF v.b THEN 1 ELSE 0) [] v.t = "int" -> v.i [] OTHER -> v.m

Decimals(v) == CASE v.t = "bool" -> 0 [] v.t = "int" -> 0 - v.e [] OTHER -> v.d

\* r is a multiple of 0.01 nearest to v * scale: within half a hundredth of it
IsRoundedProduct(r, v, scale) ==
    LET pm == Mantissa(v) * scale.m
        pd == Decimals(v) + scale.d
    IN /\ r.t = "float"
       /\ r.d <= 2
       /\ IF pd <= 2 THEN r = NormFloat(pm, pd)
          ELSE 2 * Abs(r.m * Pow10(2 - r.d) * Pow10(pd - 2) - pm) <= Pow10(pd - 2)

HasScale(key) == "scale" \in DOMAIN SensorConfig(key)

\* C9: for a key with a registered scale and no enum table, a numeric raw value
\* v (whose product with the scale can be computed) is exposed as v times the
\* scale rounded to 2 decimal places, scale 0.1 giving 23.7 for 237 and 237.1
\* for 2371; for a key without scale, or a raw value that is no number, the raw
\* value is exposed unchanged.
C9_ScaledAndRounded ==
    (nvOut.called /\ nvKey \notin EnumKeys)
        => /\ (HasScale(nvKey) /\ IsNumber(nvValue) /\ ~IntTooLargeForFloat(nvValue))
                 => /\ nvOut.exc = <<>>
                    /\ IsRoundedProduct(nvOut.value, nvValue, SensorConfig(nvKey).scale)
           /\ (~HasScale(nvKey) \/ ~IsNumber(nvValue))
                 => /\ nvOut.exc = <<>>
                    /\ nvOut.value = nvValue
           /\ (nvKey = K_temp1 /\ nvValue = PyInt(237)) => nvOut.value = PyFloat(237, 1)
           /\ (nvKey = K_temp1 /\ nvValue = PyInt(2371)) => nvOut.value = PyFloat(2371, 1)

\* a reading in millihertz has been scaled by 0.001 and rounded up
C9_Witness ==
    /\ nvOut.called
    /\ nvKey = K_freq
    /\ nvValue = PyInt(50018)
    /\ nvOut.value = PyFloat(5002, 2)

\* C10: the transformer never raises because of scaling: for every scaled key
\* and every numeric raw value, when the multiply or round step fails (an
\* integer too large for a float included) the unscaled raw value is returned
\* and no error reaches the caller.
C10_ScalingNeverRaises ==
    (nvOut.called /\ nvKey \notin EnumKeys /\ HasScale(nvKey) /\ IsNumber(nvValue))
        => /\ nvOut.exc = <<>>
           /\ IntTooLargeForFloat(nvValue) => nvOut.value = nvValue

-----------------------------------------------------------------------------
(* The flattener taken alone: _flatten_dict of X and of the wrapper {k: X}    *)

\* the poller variables as async_setup_entry finds them
PollerIdle ==
    /\ phase = "unloaded"
    /\ data = [p \in DataTypes |-> PyNone]
    /\ inflight = NoneInFlight
    /\ lastOk = [p \in DataTypes |-> NoSnapshot]
    /\ lastCall = NoCall
    /\ entities = <<>>
    /\ ticks = 0
    /\ outstanding = NoneOutstanding

\* the transformer probe is not in use
NvIdle ==
    /\ nvKey = <<>>
    /\ nvValue = PyNone
    /\ nvOut = [called |-> FALSE, exc |-> <<>>, value |-> PyNone]

\* wrapper keys: the empty string, plain keys, keys holding the separator
FlKeys == {<<>>, <<"a">>, <<"b">>, <<"a", "_", "b">>, <<"_">>, <<"a", "_">>}

\* nested mappings: flat, nested one and two levels, empty, with keys that
\* collide once flattened, and with the empty string as a key
FlInners ==
    { PyDict(<< <<<<"b">>, PyInt(1)>> >>),
      PyDict(<< <<<<"b">>, PyInt(1)>>,
                <<<<"c">>, PyDict(<< <<<<"d">>, PyInt(2)>> >>)>> >>),
      PyDict(<< <<<<"c">>, PyDict(<< <<<<"d">>,
                    PyDict(<< <<<<"e">>, PyInt(3)>> >>)>> >>)>> >>),
      EmptyDict,
      PyDict(<< <<<<"c">>, EmptyDict>>, <<<<"b">>, PyNone>> >>),
      PyDict(<< <<<<"a", "_", "b">>, PyInt(1)>>,
                <<<<"a">>, PyDict(<< <<<<"b">>, PyInt(2)>> >>)>> >>),
      PyDict(<< <<<<"a">>, PyDict(<< <<<<"b">>, PyInt(2)>> >>)>>,
                <<<<"a", "_", "b">>, PyInt(1)>>, <<<<"d">>, PyList>> >>),
      PyDict(<< <<<<>>, PyInt(1)>> >>),
      PyDict(<< <<<<>>, PyDict(<< <<<<"b">>, PyInt(1)>> >>)>> >>),
      PyDict(<< <<<<"_">>, PyDict(<< <<<<"b">>, PyStr(<<"on">>)>> >>)>> >>) }

InitFlat ==
    /\ PollerIdle
    /\ NvIdle
    /\ FlowIdle
    /\ RegIdle
    /\ flKey \in FlKeys
    /\ flInner \in FlInners
    /\ flOut = NoFlatten

\* sensor code flattens X and the wrapper {k: X}
FlattenWrapped ==
    /\ ~flOut.called
    /\ flOut' = [called |-> TRUE,
                 wrapped |-> Flat(PyDict(<< <<flKey, flInner>> >>)),
                 inner |-> Flat(flInner)]
    /\ UNCHANGED <<pollerVars, nvVars, flKey, flInner, flowVars, regVars>>

NextFlat == FlattenWrapped

SpecFlat == InitFlat /\ [][NextFlat]_vars

-----------------------------------------------------------------------------
(* Claims about the flattener (checked under SpecFlat) *)

\* a dict's items as a mapping: the order of insertion does not count
AsMapping(items) == {<<items[n][1], items[n][2]>> : n \in 1..Len(items)}

\* every key p of a flat dict replaced by k + "_" + p, its value kept
Prefixed(items, k) ==
    [n \in 1..Len(items) |-> <<k \o SEP \o items[n][1], items[n][2]>>]

\* C11: for every nested mapping X and every wrapper key k (the empty string
\* and keys containing the separator included), flatten({k: X}) equals
\* flatten(X) with each key p replaced by k + "_" + p and its value kept.
C11_WrapperIsPrefix ==
    flOut.called
        => AsMapping(flOut.wrapped) = AsMapping(Prefixed(flOut.inner, flKey))

-----------------------------------------------------------------------------
(* The config flow: validate_input and ConfigFlow.async_step_user *)

\* async_get_data, given what the network did to its GET
async_get_data(ev) == _async_get(ev)

\* a variant of async_validate_connection that reports success whatever the
\* fetch did
async_validate_connection_always(ev) == Returned(PyBool(TRUE))

\* MyPVApiClient.async_validate_connection: "except Exception" turns every
\* failure of the fetch into False
async_validate_connection(ev) ==
    IF async_get_data(ev).exc = <<>>
    THEN Returned(PyBool(TRUE))
    ELSE Returned(PyBool(FALSE))

\* the GETs one call of async_validate_connection issues
ValidationRequests == <<Endpoint("data")>>

\* validate_input(hass, data): the title, or ConnectionError
validate_input(ev, serial) ==
    LET ok == async_validate_connection(ev)
    IN IF ok.exc # <<>> THEN ok
       ELSE IF ~Truthy(ok.value) THEN Raised(<<"ConnectionError">>)
       ELSE Returned(PyStr(<<"myPV AC THOR ">> \o serial))

\* the serials of the config entries
ConfiguredSerials(entry_list) == {entry_list[n].serial : n \in 1..Len(entry_list)}

\* a variant of _abort_if_unique_id_configured that never aborts
_abort_if_unique_id_configured_never(entry_list, unique_id) == FALSE

\* self._abort_if_unique_id_configured(): TRUE when it raises AbortFlow
\* ("already_configured"), an entry of the domain having this unique id
_abort_if_unique_id_configured(entry_list, unique_id) ==
    unique_id \in ConfiguredSerials(entry_list)

\* the serials a user may type
FlowSerials == {<<"S1">>, <<"S2">>}

InitFlow ==
    /\ PollerIdle
    /\ NvIdle
    /\ FlIdle
    /\ FlowIdle
    /\ RegIdle

\* async_step_user(None): the user opens the flow and is shown the empty form
\* (a slot whose flow has ended is used for a new flow)
StepUserShowForm(f) ==
    /\ flows[f].step \in {"none", "done"}
    /\ flows' = [flows EXCEPT ![f] = [NoFlow EXCEPT !.step = "form", !.result = "form"]]
    /\ UNCHANGED <<pollerVars, nvVars, flVars, configEntries, regVars>>

\* async_step_user(user_input) up to its await: validate_input has built the
\* client and the GET of async_validate_connection is under way
StepUserSubmit(f) ==
    /\ flows[f].step = "form"
    /\ \E serial \in FlowSerials :
         flows' = [flows EXCEPT ![f] =
                      [NoFlow EXCEPT !.step = "validating", !.serial = serial,
                                     !.gets = ValidationRequests]]
    /\ UNCHANGED <<pollerVars, nvVars, flVars, configEntries, regVars>>

\* the GET ends and async_step_user runs to its return: the form again with an
\* error, an abort, or the entry, which the flow manager adds on return
StepUserResume(f) ==
    /\ flows[f].step = "validating"
    /\ \E ev \in NetEvents(Endpoint("data")) :
         LET serial == flows[f].serial
             ok == async_validate_connection(ev)
             info == validate_input(ev, serial)
             seen == [flows[f] EXCEPT
                         !.fetch = IF async_get_data(ev).exc = <<>>
                                   THEN "returned" ELSE "raised",
                         !.validated = IF ok.exc # <<>> THEN "raised"
                                       ELSE IF Truthy(ok.value) THEN "true" ELSE "false",
                         !.net = ev.kind, !.status = ev.status]
         IN IF info.exc # <<>>
            THEN /\ flows' = [flows EXCEPT ![f] =
                                [seen EXCEPT !.step = "form", !.result = "form",
                                             !.errors = IF info.exc[1] = "ConnectionError"
                                                        THEN "cannot_connect"
                                                        ELSE "unknown"]]
                 /\ UNCHANGED configEntries
            ELSE IF _abort_if_unique_id_configured(configEntries, serial)
            THEN /\ flows' = [flows EXCEPT ![f] =
                                [seen EXCEPT !.step = "done", !.result = "abort",
                                             !.reason = "already_configured"]]
                 /\ UNCHANGED configEntries
            ELSE /\ flows' = [flows EXCEPT ![f] =
                                [seen EXCEPT !.step = "done", !.result = "create_entry"]]
                 /\ configEntries' = Append(configEntries,
                                            [serial |-> serial, title |-> info.value.s])
    /\ UNCHANGED <<pollerVars, nvVars, flVars, regVars>>

NextFlow ==
    \/ \E f \in FlowIds : StepUserShowForm(f)
    \/ \E f \in FlowIds : StepUserSubmit(f)
    \/ \E f \in FlowIds : StepUserResume(f)

SpecFlow == InitFlow /\ [][NextFlow]_vars

-----------------------------------------------------------------------------
(* Claims about the config flow (checked under SpecFlow) *)

\* the submission of flow f ends in this step
SubmissionEnds(f) == flows[f].step = "validating" /\ flows'[f].step # "validating"

\* C14: connection validation issues exactly one fetch of the device data,
\* returns true exactly when that fetch succeeds and never raises; a config
\* entry is created only when validation returned true, and every failure of
\* the validation fetch is shown to the user as "cannot connect", no entry
\* being created.
C14_ValidationDecides ==
    [][\A f \in FlowIds :
         SubmissionEnds(f)
             => /\ flows'[f].gets = <<"/data">>
                /\ flows'[f].validated \in {"true", "false"}
                /\ flows'[f].validated = "true" <=> flows'[f].fetch = "returned"
                /\ configEntries' # configEntries
                       => /\ flows'[f].validated = "true"
                          /\ flows'[f].result = "create_entry"
                /\ flows'[f].fetch = "raised"
                       => /\ flows'[f].result = "form"
                          /\ flows'[f].errors = "cannot_connect"
                          /\ configEntries' = configEntries]_vars

\* a submission whose validation fetch timed out is back at the form with
\* "cannot connect" while another submission has created the only entry
C14_Witness ==
    /\ \E f \in FlowIds :
          /\ flows[f].net = "timeout"
          /\ flows[f].validated = "false"
          /\ flows[f].errors = "cannot_connect"
    /\ \E f \in FlowIds : flows[f].result = "create_entry"
    /\ Len(configEntries) = 1

\* C15: after any sequence of submissions no two config entries have the
\* same device serial; a submission whose serial is already configured ends in
\* an abort and adds no entry, also when its credentials validate.
C15_SerialsUnique ==
    /\ \A i, j \in 1..Len(configEntries) :
          configEntries[i].serial = configEntries[j].serial => i = j
    /\ \A f \in FlowIds :
          flows[f].result = "abort"
              => /\ flows[f].reason = "already_configured"
                 /\ flows[f].serial \in ConfiguredSerials(configEntries)
    /\ \A f \in FlowIds :
          flows[f].result = "create_entry"
              => flows[f].serial \in ConfiguredSerials(configEntries)

\* a submission for a configured serial validated and was aborted, the serial
\* still having its one entry
C15_Witness ==
    \E f \in FlowIds :
        /\ flows[f].result = "abort"
        /\ flows[f].validated = "true"
        /\ Cardinality({n \in 1..Len(configEntries) :
                            configEntries[n].serial = flows[f].serial}) = 1

-----------------------------------------------------------------------------
(* The registry hass.data[DOMAIN]: async_setup_entry and async_unload_entry   *)
(* of the integration                                                        *)

\* entry.data[CONF_SERIAL] of the config entries
EntrySerial(entry_id) ==
    CASE entry_id = <<"E1">> -> <<"S1">>
      [] entry_id = <<"E2">> -> <<"S2">>
      [] OTHER -> <<"S3">>

\* the record async_setup_entry stores: the client (known by the serial it
\* was built for) and the serial
RegistryRecord(entry_id) ==
    [client |-> [serial |-> EntrySerial(entry_id)], serial |-> EntrySerial(entry_id)]

\* dict.pop(k) on the items of a dict: the items left
Pop(items, k) == SelectSeq(items, LAMBDA it : it[1] # k)

\* a variant of async_unload_entry that removes the record whatever the
\* platforms answered
async_unload_entry_always_pops(reg, entry_id, unload_ok) ==
    [exc |-> <<>>, value |-> PyBool(unload_ok), data |-> Pop(reg, entry_id)]

\* async_unload_entry once async_unload_platforms has answered unload_ok:
\* what it returns (or raises) and hass.data[DOMAIN] after it
async_unload_entry(reg, entry_id, unload_ok) ==
    IF ~unload_ok THEN [exc |-> <<>>, value |-> PyBool(FALSE), data |-> reg]
    ELSE IF ~HasKey(reg, entry_id)
    THEN [exc |-> <<"KeyError">>, value |-> PyNone, data |-> reg]
    ELSE [exc |-> <<>>, value |-> PyBool(TRUE), data |-> Pop(reg, entry_id)]

InitReg ==
    /\ PollerIdle
    /\ NvIdle
    /\ FlIdle
    /\ FlowIdle
    /\ RegIdle

\* async_setup_entry up to its await: the record is stored and the platforms
\* are being set up
IntegrationSetupBegins(e) ==
    /\ entryState[e] = "not_loaded"
    /\ entryState' = [entryState EXCEPT ![e] = "setup_in_progress"]
    /\ registry' = Put(registry, e, RegistryRecord(e))
    /\ UNCHANGED <<pollerVars, nvVars, flVars, flowVars, loadedEntries, lastOp>>

\* async_forward_entry_setups is done (a platform that failed was logged by
\* the host) and async_setup_entry returns True
IntegrationSetupReturns(e) ==
    /\ entryState[e] = "setup_in_progress"
    /\ entryState' = [entryState EXCEPT ![e] = "loaded"]
    /\ loadedEntries' = loadedEntries \cup {e}
    /\ lastOp' = [op |-> "setup", entry |-> e, result |-> TRUE]
    /\ UNCHANGED <<pollerVars, nvVars, flVars, flowVars, registry>>

\* async_unload_entry up to its await: the platforms are being unloaded
UnloadEntryBegins(e) ==
    /\ entryState[e] = "loaded"
    /\ entryState' = [entryState EXCEPT ![e] = "unload_in_progress"]
    /\ UNCHANGED <<pollerVars, nvVars, flVars, flowVars, registry, loadedEntries,
                   lastOp>>

\* async_unload_platforms answers and async_unload_entry returns
UnloadEntryReturns(e) ==
    /\ entryState[e] = "unload_in_progress"
    /\ \E unload_ok \in BOOLEAN :
         LET r == async_unload_entry(registry, e, unload_ok)
             unloaded == r.exc = <<>> /\ r.value.b
         IN /\ registry' = r.data
            /\ entryState' = [entryState EXCEPT ![e] =
                                 IF unloaded THEN "not_loaded" ELSE "failed_unload"]
            /\ loadedEntries' = IF unloaded THEN loadedEntries \ {e}
                                ELSE loadedEntries
            /\ lastOp' = [op |-> "unload", entry |-> e, result |-> unloaded]
    /\ UNCHANGED <<pollerVars, nvVars, flVars, flowVars>>

NextReg ==
    \/ \E e \in RegEntryIds : IntegrationSetupBegins(e)
    \/ \E e \in RegEntryIds : IntegrationSetupReturns(e)
    \/ \E e \in RegEntryIds : UnloadEntryBegins(e)
    \/ \E e \in RegEntryIds : UnloadEntryReturns(e)

SpecReg == InitReg /\ [][NextReg]_vars

-----------------------------------------------------------------------------
(* Claims about the registry (checked under SpecReg) *)

\* no set-up or unload of entry e is under way
Quiescent(states, e) == states[e] \in {"not_loaded", "loaded", "failed_unload"}

\* the unload of entry e returns in this step
UnloadReturns(e) ==
    entryState[e] = "unload_in_progress" /\ entryState'[e] # "unload_in_progress"

\* C20: after any sequence of set-ups and unloads the registry holds the
\* client/serial record of an entry exactly when the entry has been set up and
\* not successfully unloaded since; an unload whose platform unload fails
\* leaves the registry as it was and returns False, a successful unload removes
\* the record of its entry only, and no operation on one entry touches the
\* record of another.
C20_RegistryTracksLoadedEntries ==
    [][\A e \in RegEntryIds :
         /\ Quiescent(entryState', e)
                => /\ HasKey(registry', e) <=> e \in loadedEntries'
                   /\ HasKey(registry', e)
                          => Get(registry', e, PyNone) = RegistryRecord(e)
         /\ (UnloadReturns(e) /\ entryState'[e] = "failed_unload")
                => /\ registry' = registry
                   /\ lastOp' = [op |-> "unload", entry |-> e, result |-> FALSE]
         /\ (UnloadReturns(e) /\ entryState'[e] = "not_loaded")
                => /\ AsMapping(registry') = AsMapping(registry) \ {<<e, RegistryRecord(e)>>}
                   /\ ~HasKey(registry', e)
                   /\ lastOp' = [op |-> "unload", entry |-> e, result |-> TRUE]
         /\ entryState'[e] = entryState[e]
                => /\ HasKey(registry', e) <=> HasKey(registry, e)
                   /\ Get(registry', e, PyNone) = Get(registry, e, PyNone)]_vars

\* the unload of one entry has failed and kept its record, another entry was
\* unloaded and has none, a third is set up and has its own
C20_Witness ==
    /\ lastOp = [op |-> "unload", entry |-> <<"E1">>, result |-> FALSE]
    /\ entryState[<<"E1">>] = "failed_unload"
    /\ HasKey(registry, <<"E1">>)
    /\ entryState[<<"E2">>] = "not_loaded"
    /\ ~HasKey(registry, <<"E2">>)
    /\ entryState[<<"E3">>] = "loaded"
    /\ Get(registry, <<"E3">>, PyNone) = RegistryRecord(<<"E3">>)
    /\ Keys(registry) = {<<"E1">>, <<"E3">>}

=============================================================================
